---- MODULE Spec2Model ----
(***************************************************************************)
(* Model of ensemble_derive's Model derive (src/ensemble_derive/src/model/ *)
(* mod.rs): the generator pipeline r#impl, the fragments it emits, and the *)
(* behaviour of the emitted create / fresh methods at run time.            *)
(*                                                                         *)
(* Text is a sequence of one-character strings, so that case conversion    *)
(* and pluralisation are computed character by character.                  *)
(***************************************************************************)
EXTENDS Integers, Sequences, FiniteSets, TLC

VARIABLES ast, opts, pc, fields, primary_key, emitted, locals, result,
          rt, self, insertCalls, inserted, ret, findKey

vars == <<ast, opts, pc, fields, primary_key, emitted, locals, result,
          rt, self, insertCalls, inserted, ret, findKey>>

genVars == <<ast, opts, pc, fields, primary_key, emitted, locals, result>>
runVars == <<rt, self, insertCalls, inserted, ret, findKey>>

----------------------------------------------------------------------------
(* Bounds *)

MaxFields == 2
MaxVal == 1

----------------------------------------------------------------------------
(* Text helpers *)

UpperSeq == <<"A","B","C","D","E","F","G","H","I","J","K","L","M",
              "N","O","P","Q","R","S","T","U","V","W","X","Y","Z">>
LowerSeq == <<"a","b","c","d","e","f","g","h","i","j","k","l","m",
              "n","o","p","q","r","s","t","u","v","w","x","y","z">>

IsUpper(c) == \E i \in 1..Len(UpperSeq) : UpperSeq[i] = c

ToLower(c) ==
    IF IsUpper(c)
    THEN LowerSeq[CHOOSE i \in 1..Len(UpperSeq) : UpperSeq[i] = c]
    ELSE c

Vowels == {"a", "e", "i", "o", "u"}

EndsWith(s, suf) ==
    /\ Len(s) >= Len(suf)
    /\ SubSeq(s, Len(s) - Len(suf) + 1, Len(s)) = suf

DropLast(s, n) == SubSeq(s, 1, Len(s) - n)

(* Inflector::to_snake_case on an identifier: every upper-case letter is   *)
(* lower-cased, and one that is not the first character opens a new word   *)
(* separated by an underscore.                                             *)
RECURSIVE to_snake_case(_)
to_snake_case(s) ==
    IF s = <<>> THEN <<>>
    ELSE LET n == Len(s)
             c == s[n]
             init == to_snake_case(SubSeq(s, 1, n - 1))
         IN  IF IsUpper(c) /\ n > 1
             THEN init \o <<"_", ToLower(c)>>
             ELSE Append(init, ToLower(c))

(* pluralizer::pluralize(word, 2, false): the plural of word, without the  *)
(* count prefix.  Irregular words first, then the suffix rules.            *)
IrregularSingular == << <<"p","e","r","s","o","n">> >>
IrregularPlural == << <<"p","e","o","p","l","e">> >>

pluralize(word) ==
    IF \E i \in 1..Len(IrregularSingular) : EndsWith(word, IrregularSingular[i])
    THEN LET i == CHOOSE j \in 1..Len(IrregularSingular) :
                      EndsWith(word, IrregularSingular[j])
         IN  DropLast(word, Len(IrregularSingular[i])) \o IrregularPlural[i]
    ELSE IF Len(word) >= 2 /\ word[Len(word)] = "y"
            /\ word[Len(word) - 1] \notin Vowels
    THEN DropLast(word, 1) \o <<"i","e","s">>
    ELSE IF \/ EndsWith(word, <<"s">>) \/ EndsWith(word, <<"x">>)
            \/ EndsWith(word, <<"z">>)
            \/ EndsWith(word, <<"c","h">>) \/ EndsWith(word, <<"s","h">>)
    THEN word \o <<"e","s">>
    ELSE Append(word, "s")

----------------------------------------------------------------------------
(* Inputs: the derive input (ast) and the struct-level options (opts) *)

User == <<"U","s","e","r">>
Category == <<"C","a","t","e","g","o","r","y">>
Order == <<"O","r","d","e","r">>
BlogPost == <<"B","l","o","g","P","o","s","t">>
Box == <<"B","o","x">>
Person == <<"P","e","r","s","o","n">>

customer_orders ==
    <<"c","u","s","t","o","m","e","r","_","o","r","d","e","r","s">>

StructNames == {User, Category, Order, BlogPost, Box, Person}

NoneStr == [some |-> FALSE, val |-> <<>>]
SomeStr(s) == [some |-> TRUE, val |-> s]

TableNameOpts == {NoneStr, SomeStr(customer_orders), SomeStr(<<"x">>)}

(* Identifier of the field at position i of a struct whose id field (if    *)
(* any) sits at position idPos.                                            *)
OtherNames == <<"name", "email", "age", "bio">>
FieldIdent(i, idPos) == IF i = idPos THEN "id" ELSE OtherNames[i]

Types == {"u64", "Opaque"}

(* The attributes of one field: #[model(primary)], #[model(increments)],   *)
(* #[model(default = ...)].  value is "None" when no default expression is *)
(* given, "Some" for a usable one, "Bad" for one the field's default rule  *)
(* cannot be resolved from.                                                *)
Attrs == [primary_key : BOOLEAN, increments : BOOLEAN,
          value : {"None", "Some", "Bad"}]

(* A struct with n named fields *)
NamedStruct(nm, n, idPos, tys, at) ==
    [data |-> "Struct", fields_kind |-> "Named", ident |-> nm,
     fields |-> [i \in 1..n |-> [ident |-> FieldIdent(i, idPos),
                                 ty |-> tys[i], attr |-> at[i]]]]

(* A declaration the derive rejects for its shape *)
OtherShape(nm, d, k) ==
    [data |-> d, fields_kind |-> k, ident |-> nm, fields |-> <<>>]

IsDeclaration(a, names, maxFields) ==
    \/ \E nm \in names, n \in 0..maxFields :
         \E idPos \in 0..n, tys \in [1..n -> Types], at \in [1..n -> Attrs] :
            a = NamedStruct(nm, n, idPos, tys, at)
    \/ \E nm \in names, d \in {"Struct", "Enum", "Union"},
          k \in {"Unnamed", "Unit"} :
            a = OtherShape(nm, d, k)

----------------------------------------------------------------------------
(* Field model: field.rs *)

NoField == [ident |-> "", ty |-> "",
            attr |-> [primary_key |-> FALSE, increments |-> FALSE,
                      value |-> "None"]]

(* Field::default(): Ok(Some(..)) when the field has a default rule (a     *)
(* default expression or the increments marker), Ok(None) when it has      *)
(* none, Err when the rule cannot be resolved.                             *)
FieldDefault(field) ==
    IF field.attr.value = "Bad" THEN "Err"
    ELSE IF field.attr.value = "Some" \/ field.attr.increments THEN "Some"
    ELSE "None"

(* Fields::from *)
FieldsFrom(struct_fields) == struct_fields

(* Fields::keys(): the identifiers in declaration order *)
FieldsKeys(fs) == [i \in 1..Len(fs) |-> fs[i].ident]

Marked(fs) == {i \in 1..Len(fs) : fs[i].attr.primary_key}
NamedId(fs) == {i \in 1..Len(fs) : fs[i].ident = "id"}

(* Fields::primary_key(): one linear scan counting the explicit markers;   *)
(* exactly one marker is the key, none falls back to the field named id.   *)
FieldsPrimaryKey(fs) ==
    IF Cardinality(Marked(fs)) > 1
    THEN [ok |-> FALSE, field |-> NoField, err |-> "ambiguous primary key"]
    ELSE IF Cardinality(Marked(fs)) = 1
    THEN [ok |-> TRUE, field |-> fs[CHOOSE i \in Marked(fs) : TRUE], err |-> ""]
    ELSE IF NamedId(fs) # {}
    THEN [ok |-> TRUE, field |-> fs[CHOOSE i \in NamedId(fs) : TRUE], err |-> ""]
    ELSE [ok |-> FALSE, field |-> NoField, err |-> "missing primary key"]

(* Types with an intrinsic default value (<ty>::default()) *)
HasIntrinsicDefault(ty) == ty # "Opaque"

(* default::r#impl: the Default implementation; a field without a default  *)
(* rule is built from its type's intrinsic default and needs one.          *)
DefaultImpl(fs) ==
    IF \E i \in 1..Len(fs) : FieldDefault(fs[i]) = "Err"
    THEN [ok |-> FALSE, err |-> "invalid default"]
    ELSE IF \E i \in 1..Len(fs) :
              FieldDefault(fs[i]) = "None" /\ ~HasIntrinsicDefault(fs[i].ty)
    THEN [ok |-> FALSE, err |-> "no default for field type"]
    ELSE [ok |-> TRUE, err |-> ""]

----------------------------------------------------------------------------
(* Emitters *)

NoIdent == [some |-> FALSE, val |-> ""]
SomeIdent(i) == [some |-> TRUE, val |-> i]

(* impl_find with the parameter name hard-coded *)
impl_find_HardcodedId(pk) == [param |-> "id", calls |-> "query::find"]

(* impl_find: find takes a key parameter named after the primary key *)
impl_find(pk) == [param |-> pk.ident, calls |-> "query::find"]

(* A required-check for every field, defaulted or not *)
RequiredChecks_NoSkip(fs) ==
    [i \in 1..Len(fs) |-> [ident |-> fs[i].ident, ty |-> fs[i].ty]]

(* impl_create: one required-check per field without a default rule, in   *)
(* field order, and the closure mapped over the insert's result.           *)
RECURSIVE RequiredChecks(_)
RequiredChecks(fs) ==
    IF fs = <<>> THEN <<>>
    ELSE IF FieldDefault(Head(fs)) = "Some" THEN RequiredChecks(Tail(fs))
    ELSE <<[ident |-> Head(fs).ident, ty |-> Head(fs).ty]>>
         \o RequiredChecks(Tail(fs))

(* The overwriting closure whatever the increments flag *)
optional_increment_Always(pk) == SomeIdent(pk.ident)

optional_increment(pk) ==
    IF pk.attr.increments THEN SomeIdent(pk.ident) ELSE NoIdent

NoCreate == [required |-> <<>>, increment |-> NoIdent]

impl_create(fs, pk) ==
    IF \E i \in 1..Len(fs) : FieldDefault(fs[i]) = "Err"
    THEN [ok |-> FALSE, err |-> "invalid default", frag |-> NoCreate]
    ELSE [ok |-> TRUE, err |-> "",
          frag |-> [required |-> RequiredChecks(fs),
                    increment |-> optional_increment(pk)]]

(* impl_primary_key naming the conventional id field *)
impl_primary_key_HardcodedId(pk) == [PRIMARY_KEY |-> "id", accessor |-> "id"]

(* impl_primary_key: the PRIMARY_KEY constant and the primary_key accessor *)
impl_primary_key(pk) == [PRIMARY_KEY |-> pk.ident, accessor |-> pk.ident]

(* impl_keys *)
impl_keys(fs) == FieldsKeys(fs)

(* impl_table_name without the pluralisation *)
impl_table_name_Singular(struct_name, custom_name) ==
    IF custom_name.some THEN custom_name.val
    ELSE to_snake_case(struct_name)

(* impl_table_name *)
impl_table_name(struct_name, custom_name) ==
    IF custom_name.some THEN custom_name.val
    ELSE pluralize(to_snake_case(struct_name))

NoLocals == [keys_impl |-> <<>>,
             find_impl |-> [param |-> "", calls |-> ""],
             create_impl |-> NoCreate,
             primary_key_impl |-> [PRIMARY_KEY |-> "", accessor |-> ""],
             table_name_impl |-> NoneStr]

NoGen == [name |-> <<>>, PrimaryKey |-> "", members |-> {},
          default_impl |-> FALSE, body |-> NoLocals]

Pending == [tag |-> "Pending", err |-> "", gen |-> NoGen]
Err(msg) == [tag |-> "Err", err |-> msg, gen |-> NoGen]
Ok(gen) == [tag |-> "Ok", err |-> "", gen |-> gen]

(* The members of the impl block assembled by quote!, lines 50-66 *)
Members == {"all_impl", "keys_impl", "find_impl", "save_impl", "fresh_impl",
            "create_impl", "delete_impl", "table_name_impl",
            "primary_key_impl"}

----------------------------------------------------------------------------
(* The run-time state of one call of an emitted method *)

Values == 0..MaxVal

(* <ty>::default(): the types that have one are integers, whose default   *)
(* is zero.                                                                *)
U64Default == 0
IntrinsicDefault(ty) == U64Default

NoInstance == [k \in {} |-> 0]
NoRet == [tag |-> "None", err |-> "", field |-> "", model |-> NoInstance]
NoInserted == [model |-> NoInstance, id |-> 0]

Instances(keys) == [{keys[i] : i \in 1..Len(keys)} -> Values]

----------------------------------------------------------------------------
(* Initial states *)

InitRest ==
    /\ pc = "struct_check"
    /\ fields = <<>>
    /\ primary_key = NoField
    /\ emitted = {}
    /\ locals = NoLocals
    /\ result = Pending
    /\ rt = "idle"
    /\ self = NoInstance
    /\ insertCalls = 0
    /\ inserted = NoInserted
    /\ ret = NoRet
    /\ findKey = [some |-> FALSE, val |-> 0]

Init ==
    /\ IsDeclaration(ast, {User}, MaxFields)
    /\ opts \in {[table_name |-> t] : t \in {NoneStr, SomeStr(customer_orders)}}
    /\ InitRest

----------------------------------------------------------------------------
(* r#impl, statement by statement *)

Fail(msg) ==
    /\ pc' = "done"
    /\ result' = Err(msg)

(* lines 20-25 *)
StructCheck ==
    /\ pc = "struct_check"
    /\ IF ast.data = "Struct"
       THEN pc' = "fields_check" /\ UNCHANGED result
       ELSE Fail("Model derive only supports structs")
    /\ UNCHANGED <<ast, opts, fields, primary_key, emitted, locals>>
    /\ UNCHANGED runVars

(* lines 27-32 *)
FieldsCheck ==
    /\ pc = "fields_check"
    /\ IF ast.fields_kind = "Named"
       THEN pc' = "fields_from" /\ UNCHANGED result
       ELSE Fail("Model derive only supports named fields")
    /\ UNCHANGED <<ast, opts, fields, primary_key, emitted, locals>>
    /\ UNCHANGED runVars

(* line 34 *)
BuildFields ==
    /\ pc = "fields_from"
    /\ fields' = FieldsFrom(ast.fields)
    /\ pc' = "primary_key"
    /\ UNCHANGED <<ast, opts, primary_key, emitted, locals, result>>
    /\ UNCHANGED runVars

(* Primary-key resolution that falls back to the first field rather than *)
(* failing                                                                 *)
ResolvePrimaryKey_OrFirst ==
    /\ pc = "primary_key"
    /\ LET r == FieldsPrimaryKey(fields)
       IN  IF r.ok \/ fields # <<>>
           THEN /\ primary_key' = IF r.ok THEN r.field ELSE fields[1]
                /\ pc' = "all_impl"
                /\ UNCHANGED result
           ELSE /\ Fail(r.err)
                /\ UNCHANGED primary_key
    /\ UNCHANGED <<ast, opts, fields, emitted, locals>>
    /\ UNCHANGED runVars

(* line 35 *)
ResolvePrimaryKey ==
    /\ pc = "primary_key"
    /\ LET r == FieldsPrimaryKey(fields)
       IN  IF r.ok
           THEN /\ primary_key' = r.field
                /\ pc' = "all_impl"
                /\ UNCHANGED result
           ELSE /\ Fail(r.err)
                /\ UNCHANGED primary_key
    /\ UNCHANGED <<ast, opts, fields, emitted, locals>>
    /\ UNCHANGED runVars

(* lines 37-40: impl_all, impl_save, impl_fresh, impl_delete take no input *)
EmitStatic ==
    /\ pc \in {"all_impl", "save_impl", "fresh_impl", "delete_impl"}
    /\ emitted' = emitted \cup {pc}
    /\ pc' = CASE pc = "all_impl" -> "save_impl"
               [] pc = "save_impl" -> "fresh_impl"
               [] pc = "fresh_impl" -> "delete_impl"
               [] pc = "delete_impl" -> "keys_impl"
    /\ UNCHANGED <<ast, opts, fields, primary_key, locals, result>>
    /\ UNCHANGED runVars

(* line 41 *)
EmitKeys ==
    /\ pc = "keys_impl"
    /\ locals' = [locals EXCEPT !.keys_impl = impl_keys(fields)]
    /\ emitted' = emitted \cup {"keys_impl"}
    /\ pc' = "find_impl"
    /\ UNCHANGED <<ast, opts, fields, primary_key, result>>
    /\ UNCHANGED runVars

(* line 42 *)
EmitFind ==
    /\ pc = "find_impl"
    /\ locals' = [locals EXCEPT !.find_impl = impl_find(primary_key)]
    /\ emitted' = emitted \cup {"find_impl"}
    /\ pc' = "create_impl"
    /\ UNCHANGED <<ast, opts, fields, primary_key, result>>
    /\ UNCHANGED runVars

(* line 43 *)
EmitCreate ==
    /\ pc = "create_impl"
    /\ LET r == impl_create(fields, primary_key)
       IN  IF r.ok
           THEN /\ locals' = [locals EXCEPT !.create_impl = r.frag]
                /\ emitted' = emitted \cup {"create_impl"}
                /\ pc' = "primary_key_impl"
                /\ UNCHANGED result
           ELSE /\ Fail(r.err)
                /\ UNCHANGED <<locals, emitted>>
    /\ UNCHANGED <<ast, opts, fields, primary_key>>
    /\ UNCHANGED runVars

(* line 44 *)
EmitPrimaryKey ==
    /\ pc = "primary_key_impl"
    /\ locals' = [locals EXCEPT
                    !.primary_key_impl = impl_primary_key(primary_key)]
    /\ emitted' = emitted \cup {"primary_key_impl"}
    /\ pc' = "default_impl"
    /\ UNCHANGED <<ast, opts, fields, primary_key, result>>
    /\ UNCHANGED runVars

(* Default synthesis whose failure is dropped instead of propagated *)
EmitDefault_Unchecked ==
    /\ pc = "default_impl"
    /\ emitted' = emitted \cup {"default_impl"}
    /\ pc' = "table_name_impl"
    /\ UNCHANGED <<ast, opts, fields, primary_key, locals, result>>
    /\ UNCHANGED runVars

(* line 45 *)
EmitDefault ==
    /\ pc = "default_impl"
    /\ LET r == DefaultImpl(fields)
       IN  IF r.ok
           THEN /\ emitted' = emitted \cup {"default_impl"}
                /\ pc' = "table_name_impl"
                /\ UNCHANGED result
           ELSE /\ Fail(r.err)
                /\ UNCHANGED emitted
    /\ UNCHANGED <<ast, opts, fields, primary_key, locals>>
    /\ UNCHANGED runVars

(* line 46 *)
EmitTableName ==
    /\ pc = "table_name_impl"
    /\ locals' = [locals EXCEPT !.table_name_impl =
                    SomeStr(impl_table_name(ast.ident, opts.table_name))]
    /\ emitted' = emitted \cup {"table_name_impl"}
    /\ pc' = "quote"
    /\ UNCHANGED <<ast, opts, fields, primary_key, result>>
    /\ UNCHANGED runVars

(* Assembly taking the key type from the first field *)
Assemble_FirstFieldType ==
    /\ pc = "quote"
    /\ result' = Ok([name |-> ast.ident,
                     PrimaryKey |-> fields[1].ty,
                     members |-> emitted \ {"default_impl"},
                     default_impl |-> "default_impl" \in emitted,
                     body |-> locals])
    /\ pc' = "done"
    /\ UNCHANGED <<ast, opts, fields, primary_key, emitted, locals>>
    /\ UNCHANGED runVars

(* lines 48-68 *)
Assemble ==
    /\ pc = "quote"
    /\ result' = Ok([name |-> ast.ident,
                     PrimaryKey |-> primary_key.ty,
                     members |-> emitted \ {"default_impl"},
                     default_impl |-> "default_impl" \in emitted,
                     body |-> locals])
    /\ pc' = "done"
    /\ UNCHANGED <<ast, opts, fields, primary_key, emitted, locals>>
    /\ UNCHANGED runVars

----------------------------------------------------------------------------
(* The emitted methods at run time.  They exist once r#impl returned Ok.   *)

Gen == result.gen
Keys == Gen.body.keys_impl

Required(field_name) ==
    [tag |-> "Err", err |-> "Required", field |-> field_name,
     model |-> NoInstance]
StoreError ==
    [tag |-> "Err", err |-> "Store", field |-> "", model |-> NoInstance]
OkModel(m) == [tag |-> "Ok", err |-> "", field |-> "", model |-> m]

(* #(#required)* of the emitted create: the checks run in order and the    *)
(* first field that equals its type's default returns Required.            *)
RECURSIVE Validate(_, _)
Validate(required, model) ==
    IF required = <<>> THEN NoIdent
    ELSE IF model[Head(required).ident] = IntrinsicDefault(Head(required).ty)
    THEN SomeIdent(Head(required).ident)
    ELSE Validate(Tail(required), model)

(* The closure mapped over the insert's (model, id) *)
ApplyIncrement(increment, model, id) ==
    IF increment.some THEN [model EXCEPT ![increment.val] = id] ELSE model

(* ensemble::query::create: inserts the model; on success it gives back    *)
(* the model it was passed and the id assigned by the store.               *)
query_create(model, id) == [model |-> model, id |-> id]

(* create(self) invoking the insert before the required checks *)
Create_InsertFirst ==
    /\ pc = "done" /\ result.tag = "Ok" /\ rt = "idle"
    /\ \E inst \in Instances(Keys) :
        /\ self' = inst
        /\ insertCalls' = insertCalls + 1
        /\ LET missing == Validate(Gen.body.create_impl.required, inst)
           IN  IF missing.some
               THEN /\ ret' = Required(missing.val)
                    /\ rt' = "returned"
               ELSE /\ rt' = "awaiting_create"
                    /\ UNCHANGED ret
    /\ UNCHANGED <<inserted, findKey>>
    /\ UNCHANGED genVars

(* create(self), up to the await of the insert *)
Create ==
    /\ pc = "done" /\ result.tag = "Ok" /\ rt = "idle"
    /\ \E inst \in Instances(Keys) :
        /\ self' = inst
        /\ LET missing == Validate(Gen.body.create_impl.required, inst)
           IN  IF missing.some
               THEN /\ ret' = Required(missing.val)
                    /\ rt' = "returned"
                    /\ UNCHANGED insertCalls
               ELSE /\ insertCalls' = insertCalls + 1
                    /\ rt' = "awaiting_create"
                    /\ UNCHANGED ret
    /\ UNCHANGED <<inserted, findKey>>
    /\ UNCHANGED genVars

(* The insert completes and create returns its mapped result *)
CreateResolve ==
    /\ rt = "awaiting_create"
    /\ \/ /\ ret' = StoreError
          /\ UNCHANGED inserted
       \/ \E id \in Values :
            LET r == query_create(self, id)
            IN  /\ inserted' = r
                /\ ret' = OkModel(ApplyIncrement(Gen.body.create_impl.increment,
                                                 r.model, r.id))
    /\ rt' = "returned"
    /\ UNCHANGED <<self, insertCalls, findKey>>
    /\ UNCHANGED genVars

(* fresh(&self): find(self.primary_key()) *)
Fresh ==
    /\ pc = "done" /\ result.tag = "Ok" /\ rt = "idle"
    /\ "fresh_impl" \in Gen.members
    /\ \E inst \in Instances(Keys) :
        /\ self' = inst
        /\ findKey' = [some |-> TRUE,
                       val |-> inst[Gen.body.primary_key_impl.accessor]]
    /\ rt' = "awaiting_find"
    /\ UNCHANGED <<insertCalls, inserted, ret>>
    /\ UNCHANGED genVars

----------------------------------------------------------------------------

Next ==
    \/ StructCheck
    \/ FieldsCheck
    \/ BuildFields
    \/ ResolvePrimaryKey
    \/ EmitStatic
    \/ EmitKeys
    \/ EmitFind
    \/ EmitCreate
    \/ EmitPrimaryKey
    \/ EmitDefault
    \/ EmitTableName
    \/ Assemble
    \/ Create
    \/ CreateResolve
    \/ Fresh

Spec == Init /\ [][Next]_vars

(* Every struct name and table-name override, over structs of at most one *)
(* field: the inputs of the table-name derivation.                         *)
InitTableName ==
    /\ IsDeclaration(ast, StructNames, 1)
    /\ opts \in {[table_name |-> t] : t \in TableNameOpts}
    /\ InitRest

SpecTableName == InitTableName /\ [][Next]_vars

----------------------------------------------------------------------------
(* Vocabulary of the properties *)

IsNamedStruct == ast.data = "Struct" /\ ast.fields_kind = "Named"

ExplicitMarkers == {i \in 1..Len(ast.fields) : ast.fields[i].attr.primary_key}
IdFields == {i \in 1..Len(ast.fields) : ast.fields[i].ident = "id"}

HasDefaultRule(f) == f.attr.value # "None" \/ f.attr.increments

BeforeResolution ==
    pc \in {"struct_check", "fields_check", "fields_from", "primary_key"}

Succeeded == pc = "done" /\ result.tag = "Ok"
Failed == pc = "done" /\ result.tag = "Err"

CreateCalled == rt \in {"awaiting_create", "returned"}
CreateSucceeded == rt = "returned" /\ ret.tag = "Ok"

(* The fields of self that create must reject: no default rule, and the    *)
(* value is the type's intrinsic default.                                  *)
MissingFields ==
    {i \in 1..Len(ast.fields) :
        /\ ~HasDefaultRule(ast.fields[i])
        /\ self[ast.fields[i].ident] = 0}

----------------------------------------------------------------------------
(* C1: create fails with Required(f) exactly when some field without a     *)
(* default rule holds its type's intrinsic default; f names such a field;  *)
(* a field with a default rule never causes the failure.                   *)
C1_RequiredIffMissing ==
    CreateCalled =>
        /\ (ret.err = "Required") <=> (MissingFields # {})
        /\ ret.err = "Required" =>
             \E i \in MissingFields : ast.fields[i].ident = ret.field

C1_Witness ==
    /\ CreateCalled
    /\ ret.err = "Required"
    /\ \E i \in 1..Len(ast.fields) :
         /\ HasDefaultRule(ast.fields[i])
         /\ self[ast.fields[i].ident] = 0
         /\ ast.fields[i].ident # ret.field

(* C2: the insert is invoked only once validation has passed, then exactly *)
(* once; a Required failure never reaches the insert; the primary key is   *)
(* overwritten only after a successful insert.                             *)
C2_InsertAfterValidation ==
    /\ insertCalls \in {0, 1}
    /\ insertCalls = 1 => CreateCalled /\ MissingFields = {}
    /\ (CreateCalled /\ MissingFields = {}) => insertCalls = 1
    /\ ret.err = "Required" => insertCalls = 0 /\ inserted = NoInserted
    /\ CreateSucceeded => insertCalls = 1 /\ inserted.model = self
    /\ (CreateCalled /\ ~CreateSucceeded) => ret.model = NoInstance

C2_Witness ==
    /\ CreateSucceeded
    /\ insertCalls = 1
    /\ \E i \in 1..Len(ast.fields) : ~HasDefaultRule(ast.fields[i])
    /\ ret.model # self

(* C3: after a successful create the primary key is the id supplied by     *)
(* the insert when the key is marked increments, and is unchanged          *)
(* otherwise; every other field is as the insert returned it.              *)
C3_IncrementPolicy ==
    CreateSucceeded =>
        /\ primary_key.attr.increments =>
             ret.model[primary_key.ident] = inserted.id
        /\ ~primary_key.attr.increments =>
             ret.model[primary_key.ident] = self[primary_key.ident]
        /\ \A k \in DOMAIN inserted.model :
             k # primary_key.ident => ret.model[k] = inserted.model[k]
        /\ DOMAIN ret.model = DOMAIN inserted.model

C3_Witness ==
    /\ CreateSucceeded
    /\ primary_key.attr.increments
    /\ inserted.id # self[primary_key.ident]
    /\ ret.model[primary_key.ident] = inserted.id
    /\ Len(ast.fields) > 1

----------------------------------------------------------------------------
(* C4 as stated: a struct with exactly one explicit primary-key marker     *)
(* resolves to the marked field and its emission succeeds.                 *)
C4_OneMarkerEmissionSucceeds ==
    (IsNamedStruct /\ Cardinality(ExplicitMarkers) = 1 /\ pc = "done") =>
        /\ result.tag = "Ok"
        /\ \A i \in ExplicitMarkers : primary_key = ast.fields[i]

(* C4, amended: with exactly one explicit marker the resolver returns the  *)
(* marked field, also when another field is named id, and the pipeline     *)
(* fails only if create emission or default synthesis fails.               *)
C4_OneMarkerResolves ==
    (IsNamedStruct /\ Cardinality(ExplicitMarkers) = 1) =>
        /\ ~BeforeResolution =>
             \A i \in ExplicitMarkers : primary_key = ast.fields[i]
        /\ Failed =>
             /\ result.err \in {"invalid default", "no default for field type"}
             /\ \E i \in 1..Len(ast.fields) :
                  \/ ast.fields[i].attr.value = "Bad"
                  \/ /\ ~HasDefaultRule(ast.fields[i])
                     /\ ast.fields[i].ty = "Opaque"
        /\ Succeeded =>
             \A i \in ExplicitMarkers :
                Gen.body.primary_key_impl.PRIMARY_KEY = ast.fields[i].ident

C4_Witness ==
    /\ Succeeded
    /\ Cardinality(ExplicitMarkers) = 1
    /\ \E i \in IdFields : i \notin ExplicitMarkers
    /\ primary_key.ident # "id"

(* C5: with no explicit marker and a field named id, resolution falls back *)
(* to the id field, which defines the PrimaryKey type, the PRIMARY_KEY     *)
(* name and the primary_key accessor.                                      *)
C5_IdFallback ==
    (IsNamedStruct /\ ExplicitMarkers = {} /\ IdFields # {}) =>
        /\ ~BeforeResolution =>
             /\ primary_key.ident = "id"
             /\ \E i \in IdFields : primary_key = ast.fields[i]
             /\ ~(Failed /\ result.err \in {"missing primary key",
                                            "ambiguous primary key"})
        /\ Succeeded =>
             /\ \E i \in IdFields : Gen.PrimaryKey = ast.fields[i].ty
             /\ Gen.body.primary_key_impl.PRIMARY_KEY = "id"
             /\ Gen.body.primary_key_impl.accessor = "id"

C5_Witness ==
    /\ Succeeded
    /\ ExplicitMarkers = {}
    /\ \E i \in IdFields : i > 1 /\ ast.fields[i].ty # ast.fields[1].ty
    /\ Gen.body.primary_key_impl.PRIMARY_KEY = "id"

(* C6: with no explicit marker and no field named id the pipeline fails    *)
(* with the missing-primary-key diagnostic and emits nothing.              *)
C6_MissingPrimaryKey ==
    (IsNamedStruct /\ ExplicitMarkers = {} /\ IdFields = {}) =>
        /\ pc \in {"struct_check", "fields_check", "fields_from",
                   "primary_key", "done"}
        /\ pc = "done" =>
             /\ result.tag = "Err"
             /\ result.err = "missing primary key"
             /\ result.gen = NoGen
             /\ emitted = {}

C6_Witness ==
    /\ IsNamedStruct /\ ExplicitMarkers = {} /\ IdFields = {}
    /\ Len(ast.fields) > 0
    /\ Failed
    /\ result.err = "missing primary key"

(* C7: with two or more explicit markers the pipeline fails with the       *)
(* ambiguous-primary-key diagnostic and emits nothing, whether or not a    *)
(* field is named id.                                                      *)
C7_AmbiguousPrimaryKey ==
    (IsNamedStruct /\ Cardinality(ExplicitMarkers) >= 2) =>
        /\ pc \in {"struct_check", "fields_check", "fields_from",
                   "primary_key", "done"}
        /\ pc = "done" =>
             /\ result.tag = "Err"
             /\ result.err = "ambiguous primary key"
             /\ result.gen = NoGen
             /\ emitted = {}

C7_Witness ==
    /\ IsNamedStruct /\ Cardinality(ExplicitMarkers) >= 2
    /\ IdFields # {}
    /\ Failed
    /\ result.err = "ambiguous primary key"

(* C8: TABLE_NAME is always present; with an override it is exactly the    *)
(* override, otherwise the pluralised lower-snake-case struct name.        *)
ExpectedTableName ==
    CASE ast.ident = User -> <<"u","s","e","r","s">>
      [] ast.ident = Category -> <<"c","a","t","e","g","o","r","i","e","s">>
      [] ast.ident = Order -> <<"o","r","d","e","r","s">>
      [] ast.ident = BlogPost -> <<"b","l","o","g","_","p","o","s","t","s">>
      [] ast.ident = Box -> <<"b","o","x","e","s">>
      [] ast.ident = Person -> <<"p","e","o","p","l","e">>

C8_TableName ==
    Succeeded =>
        /\ "table_name_impl" \in Gen.members
        /\ Gen.body.table_name_impl.some
        /\ opts.table_name.some =>
             Gen.body.table_name_impl.val = opts.table_name.val
        /\ ~opts.table_name.some =>
             Gen.body.table_name_impl.val = ExpectedTableName

C8_Witness ==
    /\ Succeeded
    /\ ast.ident = Category
    /\ ~opts.table_name.some
    /\ Gen.body.table_name_impl.val =
         <<"c","a","t","e","g","o","r","i","e","s">>

(* C9: the pipeline is fail-fast with no partial emission; the diagnostic  *)
(* is that of the first failing stage in pipeline order; a failure of the  *)
(* shape checks or of primary-key resolution precedes every emission.      *)
FirstFailure ==
    IF ast.data # "Struct" THEN "Model derive only supports structs"
    ELSE IF ast.fields_kind # "Named"
    THEN "Model derive only supports named fields"
    ELSE IF Cardinality(ExplicitMarkers) >= 2 THEN "ambiguous primary key"
    ELSE IF ExplicitMarkers = {} /\ IdFields = {} THEN "missing primary key"
    ELSE IF \E i \in 1..Len(ast.fields) : ast.fields[i].attr.value = "Bad"
    THEN "invalid default"
    ELSE IF \E i \in 1..Len(ast.fields) :
              ~HasDefaultRule(ast.fields[i]) /\ ast.fields[i].ty = "Opaque"
    THEN "no default for field type"
    ELSE ""

C9_FailFast ==
    /\ pc # "done" => result = Pending
    /\ pc = "done" =>
         \/ /\ result.tag = "Ok"
            /\ FirstFailure = ""
            /\ Gen.members = Members
            /\ Gen.default_impl
            /\ Gen.name = ast.ident
         \/ /\ result.tag = "Err"
            /\ result.gen = NoGen
            /\ result.err # ""
            /\ result.err = FirstFailure
    /\ (Failed /\ result.err \in {"Model derive only supports structs",
                                  "Model derive only supports named fields",
                                  "ambiguous primary key",
                                  "missing primary key"}) => emitted = {}

C9_Witness ==
    /\ Failed
    /\ result.err = "invalid default"
    /\ \E i \in 1..Len(ast.fields) :
         ~HasDefaultRule(ast.fields[i]) /\ ast.fields[i].ty = "Opaque"
    /\ emitted # {}
    /\ result.gen = NoGen

(* C10: every consumer uses the one resolved primary-key field: the        *)
(* PrimaryKey type, PRIMARY_KEY, primary_key(), find, fresh, and the       *)
(* auto-increment overwrite of create, which writes no other field.        *)
C10_SharedPrimaryKey ==
    Succeeded =>
        /\ \E i \in 1..Len(ast.fields) : primary_key = ast.fields[i]
        /\ Gen.PrimaryKey = primary_key.ty
        /\ Gen.body.primary_key_impl.PRIMARY_KEY = primary_key.ident
        /\ Gen.body.primary_key_impl.accessor = primary_key.ident
        /\ Gen.body.find_impl.param = primary_key.ident
        /\ Gen.body.find_impl.calls = "query::find"
        /\ Gen.body.create_impl.increment.some <=> primary_key.attr.increments
        /\ Gen.body.create_impl.increment.some =>
             Gen.body.create_impl.increment.val = primary_key.ident
        /\ rt = "awaiting_find" =>
             findKey.some /\ findKey.val = self[primary_key.ident]
        /\ CreateSucceeded =>
             \A k \in DOMAIN self :
                k # primary_key.ident => ret.model[k] = self[k]

C10_Witness ==
    /\ Succeeded
    /\ rt = "awaiting_find"
    /\ primary_key.ident # "id"
    /\ IdFields # {}
    /\ \E i \in IdFields : self[ast.fields[i].ident] # findKey.val
    /\ primary_key.attr.increments

====
